---- MODULE Spec2Model ----
(***************************************************************************)
(* Model of the Elo rating library (package elo, elo.go).                  *)
(*                                                                         *)
(* float64 values are modelled as exact rationals <<n, d>> in lowest terms *)
(* with d > 0; slices are references into a heap of backing arrays, so     *)
(* that in-place writes (normalize, lerp, "+=" on newRatings) and          *)
(* slices.Clone are distinguishable.  Address 0 is the nil slice.          *)
(***************************************************************************)
EXTENDS Integers, Sequences, FiniteSets, TLC

VARIABLES
  heap,     \* backing arrays by address
  pc,       \* "idle", "done", "panicked", "written", "done2"
  op,       \* the operation that was called
  players,  \* the []Player argument of an adapter
  saved,    \* the caller's slices as they were when the call was made
  step,     \* Race's step argument
  result,   \* address of the returned slice (0 = nil)
  err,      \* whether the returned error is non-nil
  perm,     \* the reordering used by the second Calculate call
  result2,  \* address of the second call's result
  compared  \* the comparisons the loop of a direct Calculate call made, in order

vars == <<heap, pc, op, players, saved, step, result, err, perm, result2, compared>>

\* Longest slice a caller passes.
MaxLen == 3

\* var Default = Elo{400}
Base == 400

-----------------------------------------------------------------------------
(* float64 arithmetic, as exact rationals *)

Abs(x) == IF x < 0 THEN -x ELSE x

RECURSIVE GCD(_, _)
GCD(a, b) == IF b = 0 THEN a ELSE GCD(b, a % b)

Rat(n, d) ==
  LET g == GCD(Abs(n), Abs(d))
      sgn == IF d < 0 THEN -1 ELSE 1
  IN <<(sgn * n) \div g, (sgn * d) \div g>>

F(n) == <<n, 1>>
Zero == F(0)
One == F(1)
Half == <<1, 2>>

RAdd(x, y) ==
  LET g == GCD(x[2], y[2])
      l == (x[2] \div g) * y[2]
  IN Rat(x[1] * (l \div x[2]) + y[1] * (l \div y[2]), l)

RNeg(x) == <<-x[1], x[2]>>

RSub(x, y) == RAdd(x, RNeg(y))

RMul(x, y) ==
  LET g1 == GCD(Abs(x[1]), y[2])
      g2 == GCD(Abs(y[1]), x[2])
  IN Rat((x[1] \div g1) * (y[1] \div g2), (x[2] \div g2) * (y[2] \div g1))

\* x / y for y # 0
RDiv(x, y) == RMul(x, Rat(y[2], y[1]))

RLt(x, y) == RSub(x, y)[1] < 0

RAbs(x) == <<Abs(x[1]), x[2]>>

\* math.Abs(d) > 1e-9, without forming d * 10^9
GtEpsilon(d) == d[1] # 0 /\ (d[2] \div Abs(d[1])) < 1000000000

RECURSIVE IntPow10(_)
IntPow10(n) == IF n = 0 THEN 1 ELSE 10 * IntPow10(n - 1)

\* math.Pow(10, x), for the exponents the modelled ratings produce (integers)
Pow10(x) == IF x[1] >= 0 THEN F(IntPow10(x[1])) ELSE <<1, IntPow10(-x[1])>>

\* Go's integer division truncates toward zero
TruncDiv(a, b) ==
  LET q == Abs(a) \div Abs(b)
  IN IF (a < 0) = (b < 0) THEN q ELSE -q

-----------------------------------------------------------------------------
(* slices and the heap *)

\* len(s) / contents of the slice at address a (nil has length 0)
SliceOf(h, a) == IF a = 0 THEN <<>> ELSE h[a]

\* make([]T, n) followed by filling it with v: a fresh backing array
Make(h, v) == [heap |-> Append(h, v), addr |-> Len(h) + 1]

CloneAlias(h, a) == [heap |-> h, addr |-> a]

\* slices.Clone: nil stays nil, anything else gets fresh storage
Clone(h, a) == IF a = 0 THEN [heap |-> h, addr |-> 0] ELSE Make(h, h[a])

-----------------------------------------------------------------------------
(* cmp and slices.SortStableFunc *)

cmp(s, a, b) ==
  IF RLt(s[a], s[b]) THEN -1
  ELSE IF RLt(s[b], s[a]) THEN 1
  ELSE 0

RECURSIVE InsertUnstable(_, _, _)
InsertUnstable(sorted, j, s) ==
  IF sorted = <<>> THEN <<j>>
  ELSE IF cmp(s, j, sorted[Len(sorted)]) <= 0
       THEN Append(InsertUnstable(SubSeq(sorted, 1, Len(sorted) - 1), j, s), sorted[Len(sorted)])
       ELSE Append(sorted, j)

\* insert index j into the sorted index list after every element that does
\* not compare greater: the stable order
RECURSIVE InsertStable(_, _, _)
InsertStable(sorted, j, s) ==
  IF sorted = <<>> THEN <<j>>
  ELSE IF cmp(s, j, sorted[Len(sorted)]) < 0
       THEN Append(InsertStable(SubSeq(sorted, 1, Len(sorted) - 1), j, s), sorted[Len(sorted)])
       ELSE Append(sorted, j)

RECURSIVE SortStableFunc(_, _)
SortStableFunc(idx, s) ==
  IF idx = <<>> THEN <<>>
  ELSE InsertStable(SortStableFunc(SubSeq(idx, 1, Len(idx) - 1), s), idx[Len(idx)], s)

-----------------------------------------------------------------------------
(* Elo.Calculate *)

\* Ea, Eb := Qa/(Qa+Qb), Qb/(Qa+Qb)
ExpectedACopy(Qa, Qb) == RDiv(Qa, RAdd(Qa, Qb))

ExpectedNoSum(Qa, Qb) == RDiv(Qa, Qb)

ExpectedA(Qa, Qb) == RDiv(Qa, RAdd(Qa, Qb))

ExpectedB(Qa, Qb) == RDiv(Qb, RAdd(Qa, Qb))

\* the loop "for a := 0; a < l-1; a++" over the score-ordered r, k, s
\* acc.diffs is the diffs slice; acc.log notes each iteration's pair of
\* positions in score order and its two expected outcomes
RECURSIVE EloLoop(_, _, _, _, _)
EloLoop(a, acc, r, k, s) ==
  IF a >= Len(r) THEN acc
  ELSE
    LET b == a + 1
        Qa == Pow10(RDiv(r[a], F(Base)))
        Qb == Pow10(RDiv(r[b], F(Base)))
        Ea == ExpectedA(Qa, Qb)
        Eb == ExpectedB(Qa, Qb)
        d1 == [acc.diffs EXCEPT ![a] = RAdd(@, RMul(k[a], RSub(s[a], Ea)))]
        d2 == [d1 EXCEPT ![b] = RAdd(@, RMul(k[b], RSub(s[b], Eb)))]
        log == Append(acc.log, [a |-> a, b |-> b, Ea |-> Ea, Eb |-> Eb])
    IN EloLoop(a + 1, [diffs |-> d2, log |-> log], r, k, s)

UnsortInPlace(ratings, idx, diffs) ==
  [j \in 1..Len(ratings) |-> RAdd(ratings[j], diffs[j])]

\* "newRatings[j] += diffs[i]" for i, j := range idx
Unsort(ratings, idx, diffs) ==
  [j \in 1..Len(ratings) |->
     LET i == CHOOSE i \in 1..Len(idx) : idx[i] = j
     IN RAdd(ratings[j], diffs[i])]

MisshapenShortOnly(R, K, S) == Len(R) > Len(K) \/ Len(R) > Len(S)

\* l != len(kFactors) || l != len(normalizedScores)
Misshapen(R, K, S) == Len(R) # Len(K) \/ Len(R) # Len(S)

NoOpponentNil(h, ratings) == [heap |-> h, addr |-> 0, err |-> FALSE]

\* return slices.Clone(ratings), nil
NoOpponent(h, ratings) ==
  LET c == Clone(h, ratings) IN [heap |-> c.heap, addr |-> c.addr, err |-> FALSE]

Calculate(h, ratings, kFactors, normalizedScores) ==
  LET R == SliceOf(h, ratings)
      K == SliceOf(h, kFactors)
      S == SliceOf(h, normalizedScores)
      l == Len(R)
  IN
  IF Misshapen(R, K, S)
  THEN [heap |-> h, addr |-> 0, err |-> TRUE, cmps |-> <<>>]
  ELSE IF l = 0 \/ l = 1
  THEN LET n == NoOpponent(h, ratings)
       IN [heap |-> n.heap, addr |-> n.addr, err |-> n.err, cmps |-> <<>>]
  ELSE
    LET idx == SortStableFunc([i \in 1..l |-> i], S)
        r == [i \in 1..l |-> R[idx[i]]]
        k == [i \in 1..l |-> K[idx[i]]]
        s == [i \in 1..l |-> S[idx[i]]]
        loop == EloLoop(1, [diffs |-> [i \in 1..l |-> Zero], log |-> <<>>], r, k, s)
        diffs == loop.diffs
        c == Clone(h, ratings)
    IN [heap |-> [c.heap EXCEPT ![c.addr] = Unsort(@, idx, diffs)],
        addr |-> c.addr, err |-> FALSE,
        cmps |-> [p \in 1..Len(loop.log) |->
                    [a |-> idx[loop.log[p].a], b |-> idx[loop.log[p].b],
                     Ea |-> loop.log[p].Ea, Eb |-> loop.log[p].Eb]]]

-----------------------------------------------------------------------------
(* normalize and lerp: both write through the slice they are given *)

RECURSIVE SeqMin(_)
SeqMin(s) ==
  IF Len(s) = 1 THEN s[1]
  ELSE LET m == SeqMin(SubSeq(s, 2, Len(s))) IN IF RLt(m, s[1]) THEN m ELSE s[1]

RECURSIVE SeqMax(_)
SeqMax(s) ==
  IF Len(s) = 1 THEN s[1]
  ELSE LET m == SeqMax(SubSeq(s, 2, Len(s))) IN IF RLt(s[1], m) THEN m ELSE s[1]

\* the loop that sets isEqual
IsEqual(s) == \A i \in 1..(Len(s) - 1) : ~GtEpsilon(RSub(s[i], s[i + 1]))

RescaleOnePass(s) ==
  LET min == SeqMin(s)
      max == SeqMax(s)
  IN [i \in 1..Len(s) |-> RDiv(RSub(s[i], min), max)]

\* subtract the minimum, then divide by the new maximum
Rescale(s) ==
  LET min == SeqMin(s)
      t == [i \in 1..Len(s) |-> RSub(s[i], min)]
      max == SeqMax(t)
  IN [i \in 1..Len(s) |-> RDiv(t[i], max)]

normalize(h, a) ==
  LET s == SliceOf(h, a) IN
  IF Len(s) < 2 THEN h
  ELSE IF IsEqual(s) THEN [h EXCEPT ![a] = [i \in 1..Len(s) |-> Half]]
  ELSE [h EXCEPT ![a] = Rescale(s)]

lerp(h, a) ==
  LET s == SliceOf(h, a) IN
  IF Len(s) = 0 THEN h
  ELSE IF Len(s) = 1 THEN [h EXCEPT ![a] = <<Half>>]
  ELSE
    LET stp == RDiv(One, F(Len(s) - 1))
    IN [h EXCEPT ![a] = [i \in 1..Len(s) |-> RSub(One, RMul(F(i - 1), stp))]]

-----------------------------------------------------------------------------
(* shape adapters; ps is the []Player argument, a sequence of [r, k] *)

\* the r and k slices every adapter builds from the players' accessors
PlayerSlices(h, ps) ==
  LET r == Make(h, [i \in 1..Len(ps) |-> ps[i].r])
      k == Make(r.heap, [i \in 1..Len(ps) |-> ps[i].k])
  IN [heap |-> k.heap, r |-> r.addr, k |-> k.addr]

FFA(h, ps, scores) ==
  LET rk == PlayerSlices(h, ps)
      s == Clone(rk.heap, scores)
  IN Calculate(normalize(s.heap, s.addr), rk.r, rk.k, s.addr)

Golf(h, ps, scores) ==
  LET rk == PlayerSlices(h, ps)
      s == Clone(rk.heap, scores)
      n == normalize(s.heap, s.addr)
      inv == IF s.addr = 0 THEN n
             ELSE [n EXCEPT ![s.addr] = [i \in 1..Len(@) |-> RSub(One, @[i])]]
  IN Calculate(inv, rk.r, rk.k, s.addr)

StepCountExact(t, stp) == Rat(t[1], stp)

\* float64(times[i] / step)
StepCount(t, stp) == F(TruncDiv(t[1], stp))

\* times[i] / step is an integer division: it panics when step is 0
Race(h, ps, times, stp) ==
  LET T == SliceOf(h, times) IN
  IF Len(T) > 0 /\ stp = 0
  THEN [heap |-> h, addr |-> 0, err |-> FALSE, panic |-> TRUE]
  ELSE
    LET s == Make(h, [i \in 1..Len(T) |-> StepCount(T[i], stp)])
        g == Golf(s.heap, ps, s.addr)
    IN [heap |-> g.heap, addr |-> g.addr, err |-> g.err, panic |-> FALSE]

Place(h, ps) ==
  LET scores == Make(h, [i \in 1..Len(ps) |-> Zero])
  IN FFA(lerp(scores.heap, scores.addr), ps, scores.addr)

\* scores is a [2]float64 passed by value: the callee slices its own copy;
\* the returned [2]float64 is a fresh array filled by copy()
H2H(h, ps, scores) ==
  LET param == Make(h, h[scores])
      f == FFA(param.heap, ps, param.addr)
      results == Make(f.heap, <<Zero, Zero>>)
      newRatings == SliceOf(results.heap, f.addr)
      n == IF Len(newRatings) < 2 THEN Len(newRatings) ELSE 2
  IN [heap |-> [results.heap EXCEPT ![results.addr] =
                  [i \in 1..2 |-> IF i <= n THEN newRatings[i] ELSE @[i]]],
      addr |-> results.addr]

-----------------------------------------------------------------------------
(* callers: the inputs a call is made with *)

Seqs(S, n) == UNION {[1..m -> S] : m \in 0..n}

Perms(n) == {p \in [1..n -> 1..n] : \A i, j \in 1..n : p[i] = p[j] => i = j}

Ratings == {F(1200), F(1600)}
KFactors == {F(20), F(40)}
NormalizedScores == {Zero, Half, One}
Players == {[r |-> F(1200), k |-> F(20)], [r |-> F(1600), k |-> F(20)], [r |-> F(1600), k |-> F(40)]}
RawScores == {F(0), F(10), F(20)}
\* competitors with their scores: ties and up to four distinct scores
Entrants ==
  {[r |-> F(1200), k |-> F(20), s |-> Zero],
   [r |-> F(1600), k |-> F(20), s |-> <<1, 4>>],
   [r |-> F(1600), k |-> F(40), s |-> Half],
   [r |-> F(1200), k |-> F(40), s |-> Half],
   [r |-> F(1200), k |-> F(20), s |-> One],
   [r |-> F(1600), k |-> F(20), s |-> One]}
Tiny == <<1, 1000000000>>
NoisyScores == {Zero, Tiny, One, F(2)}
\* 105ms, 120ms, 140ms; steps of 0, 10ms, 40ms.  A time.Duration is its int64
\* count of nanoseconds n; in a heap cell it is kept as <<n, 1>>.
Durations == {F(105000000), F(120000000), F(140000000)}
Steps == {0, 10000000, 40000000}

Init ==
  /\ heap = <<>>
  /\ pc = "idle"
  /\ op = "none"
  /\ players = <<>>
  /\ saved = <<>>
  /\ step = 0
  /\ result = 0
  /\ err = FALSE
  /\ perm = <<>>
  /\ result2 = 0
  /\ compared = <<>>

\* the caller builds three slices and calls Default.Calculate
CallCalculate ==
  /\ pc = "idle"
  /\ \E R \in Seqs(Ratings, MaxLen), K \in Seqs(KFactors, MaxLen),
        S \in Seqs(NormalizedScores, MaxLen) :
       \E c \in {Calculate(<<R, K, S>>, 1, 2, 3)} :
         /\ saved' = <<R, K, S>>
         /\ heap' = c.heap
         /\ result' = c.addr
         /\ err' = c.err
         /\ compared' = c.cmps
  /\ pc' = "done"
  /\ op' = "Calculate"
  /\ UNCHANGED <<players, step, perm, result2>>

\* the caller lists a field of entrants and calls Default.Calculate
CallCalculateField ==
  /\ pc = "idle"
  /\ \E es \in Seqs(Entrants, MaxLen) :
       LET R == [i \in DOMAIN es |-> es[i].r]
           K == [i \in DOMAIN es |-> es[i].k]
           S == [i \in DOMAIN es |-> es[i].s]
       IN \E c \in {Calculate(<<R, K, S>>, 1, 2, 3)} :
          /\ saved' = <<R, K, S>>
          /\ heap' = c.heap
          /\ result' = c.addr
          /\ err' = c.err
          /\ compared' = c.cmps
  /\ pc' = "done"
  /\ op' = "Calculate"
  /\ UNCHANGED <<players, step, perm, result2>>

\* a second call on the same competitors, listed in another order
CallCalculatePermuted ==
  /\ pc = "done"
  /\ op = "Calculate"
  /\ ~err
  /\ \E p \in Perms(Len(saved[1])) :
       LET n == Len(heap)
           h1 == heap \o << [i \in DOMAIN p |-> saved[1][p[i]]],
                            [i \in DOMAIN p |-> saved[2][p[i]]],
                            [i \in DOMAIN p |-> saved[3][p[i]]] >>
       IN \E c \in {Calculate(h1, n + 1, n + 2, n + 3)} :
          /\ saved' = [a \in (DOMAIN saved) \cup {n + 1, n + 2, n + 3} |-> h1[a]]
          /\ heap' = c.heap
          /\ result2' = c.addr
          /\ perm' = p
  /\ pc' = "done2"
  /\ UNCHANGED <<op, players, step, result, err, compared>>

CallFFA ==
  /\ pc = "idle"
  /\ \E ps \in Seqs(Players, MaxLen), S \in Seqs(RawScores, MaxLen) :
       \E c \in {FFA(<<S>>, ps, 1)} :
         /\ players' = ps
         /\ saved' = <<S>>
         /\ heap' = c.heap
         /\ result' = c.addr
         /\ err' = c.err
  /\ pc' = "done"
  /\ op' = "FFA"
  /\ UNCHANGED <<step, perm, result2, compared>>

CallGolf ==
  /\ pc = "idle"
  /\ \E ps \in Seqs(Players, MaxLen), S \in Seqs(RawScores, MaxLen) :
       \E c \in {Golf(<<S>>, ps, 1)} :
         /\ players' = ps
         /\ saved' = <<S>>
         /\ heap' = c.heap
         /\ result' = c.addr
         /\ err' = c.err
  /\ pc' = "done"
  /\ op' = "Golf"
  /\ UNCHANGED <<step, perm, result2, compared>>

CallRace ==
  /\ pc = "idle"
  /\ \E ps \in Seqs(Players, MaxLen), T \in Seqs(Durations, MaxLen), stp \in Steps :
       \E c \in {Race(<<T>>, ps, 1, stp)} :
         /\ players' = ps
         /\ saved' = <<T>>
         /\ step' = stp
         /\ heap' = c.heap
         /\ result' = c.addr
         /\ err' = c.err
         /\ pc' = IF c.panic THEN "panicked" ELSE "done"
  /\ op' = "Race"
  /\ UNCHANGED <<perm, result2, compared>>

CallPlace ==
  /\ pc = "idle"
  /\ \E ps \in Seqs(Players, MaxLen) :
       \E c \in {Place(<<>>, ps)} :
         /\ players' = ps
         /\ heap' = c.heap
         /\ result' = c.addr
         /\ err' = c.err
  /\ pc' = "done"
  /\ op' = "Place"
  /\ UNCHANGED <<saved, step, perm, result2, compared>>

CallH2H ==
  /\ pc = "idle"
  /\ \E ps \in [1..2 -> Players], S \in [1..2 -> RawScores] :
       \E c \in {H2H(<<S>>, ps, 1)} :
         /\ players' = ps
         /\ saved' = <<S>>
         /\ heap' = c.heap
         /\ result' = c.addr
  /\ err' = FALSE
  /\ pc' = "done"
  /\ op' = "H2H"
  /\ UNCHANGED <<step, perm, result2, compared>>

\* normalize on its own, on scores that differ by floating-point noise
CallNormalize ==
  /\ pc = "idle"
  /\ \E S \in Seqs(NoisyScores, MaxLen) :
       /\ saved' = <<S>>
       /\ heap' = normalize(<<S>>, 1)
  /\ pc' = "done"
  /\ op' = "normalize"
  /\ UNCHANGED <<players, step, result, err, perm, result2, compared>>

\* the caller overwrites the elements of the slice it got back
WriteResult ==
  /\ pc = "done"
  /\ op # "normalize"
  /\ result # 0
  /\ Len(heap[result]) > 0
  /\ heap' = [heap EXCEPT ![result] = [i \in 1..Len(@) |-> Zero]]
  /\ pc' = "written"
  /\ UNCHANGED <<op, players, saved, step, result, err, perm, result2, compared>>

Next ==
  \/ CallCalculate
  \/ CallFFA
  \/ CallGolf
  \/ CallRace
  \/ CallPlace
  \/ CallH2H
  \/ CallNormalize
  \/ WriteResult

Spec == Init /\ [][Next]_vars

\* two Calculate calls on the same competitors in different orders
NextPerm ==
  \/ CallCalculateField
  \/ CallCalculatePermuted

SpecPerm == Init /\ [][NextPerm]_vars

-----------------------------------------------------------------------------
(* what the properties below talk about *)

Adapters == {"FFA", "Golf", "Race", "Place"}

\* the ratings and K-factors the call was made with
InRatings ==
  IF op = "Calculate" THEN saved[1] ELSE [i \in 1..Len(players) |-> players[i].r]

InKFactors ==
  IF op = "Calculate" THEN saved[2] ELSE [i \in 1..Len(players) |-> players[i].k]

\* the returned slice
Out == SliceOf(heap, result)

\* a Calculate call that returned ratings
Calculated == pc = "done" /\ op = "Calculate" /\ ~err

\* rating change of competitor i in the first call
Delta(i) == RSub(Out[i], InRatings[i])

RLe(x, y) == ~RLt(y, x)

\* what Calculate returns for the given values
CalculateValue(R, K, S) ==
  LET c == Calculate(<<R, K, S>>, 1, 2, 3) IN SliceOf(c.heap, c.addr)

-----------------------------------------------------------------------------
\* C1: Calculate returns a non-nil error and a nil result exactly when the
\* three slices do not all have the same length, and no error otherwise.
C1_ErrorIffMismatch ==
  (pc = "done" /\ op = "Calculate") =>
    LET mismatch == Len(saved[1]) # Len(saved[2]) \/ Len(saved[1]) # Len(saved[3])
    IN /\ mismatch => (err /\ result = 0)
       /\ ~mismatch => ~err

C1_Witness ==
  /\ pc = "done" /\ op = "Calculate" /\ err
  /\ Len(saved[1]) = 2 /\ Len(saved[2]) = 2 /\ Len(saved[3]) = 1

\* C2: with zero or one competitor and matching lengths, Calculate and the
\* adapters return the input ratings, element for element.
C2_NoOpponentUnchanged ==
  (pc = "done" /\ op \in Adapters \cup {"Calculate"} /\ ~err /\ Len(InRatings) <= 1) =>
    Out = InRatings

C2_Witness ==
  /\ pc = "done" /\ op = "Race" /\ ~err
  /\ Len(players) = 1 /\ Out = <<players[1].r>>

\* C3 (as stated): for any permutation p, the permuted call gives every
\* competitor the same rating delta as the original call.
C3_OrderInvariance ==
  pc = "done2" =>
    \A i \in DOMAIN perm :
      RSub(heap[result2][i], saved[1][perm[i]]) = RSub(heap[result][perm[i]], saved[1][perm[i]])

\* no two competitors have the same normalized score
DistinctScores(S) == \A i, j \in DOMAIN S : S[i] = S[j] => i = j

\* C3 (amended): the same, for inputs without tied scores or with at most
\* two competitors.
C3_OrderInvarianceNoTies ==
  (pc = "done2" /\ (DistinctScores(saved[3]) \/ Len(saved[3]) <= 2)) =>
    \A i \in DOMAIN perm :
      RSub(heap[result2][i], saved[1][perm[i]]) = RSub(heap[result][perm[i]], saved[1][perm[i]])

C3_Witness ==
  /\ pc = "done2"
  /\ saved[3] = <<One, Zero, Half>>
  /\ saved[1] = <<F(1600), F(1200), F(1600)>>
  /\ perm = <<2, 3, 1>>
  /\ heap[result] # saved[1]

\* C4 (as stated): when all normalized scores are equal, every new rating
\* equals the old rating.
C4_TieUnchanged ==
  (Calculated /\ \A i, j \in DOMAIN saved[3] : saved[3][i] = saved[3][j]) =>
    Out = saved[1]

\* C4 (amended): when all normalized scores are 0.5 and all ratings are
\* equal, every new rating equals the old rating.
C4_EvenTieUnchanged ==
  (/\ Calculated
   /\ \A i \in DOMAIN saved[3] : saved[3][i] = Half
   /\ \A i, j \in DOMAIN saved[1] : saved[1][i] = saved[1][j]) =>
    Out = saved[1]

C4_Witness ==
  /\ Calculated
  /\ saved[1] = <<F(1600), F(1600), F(1600)>>
  /\ saved[2] = <<F(20), F(40), F(20)>>
  /\ saved[3] = <<Half, Half, Half>>
  /\ Out = saved[1]

\* C5 (as stated): with two competitors and equal K-factors the two rating
\* changes sum to zero.
C5_ZeroSum ==
  (Calculated /\ Len(saved[1]) = 2 /\ saved[2][1] = saved[2][2]) =>
    RAdd(Delta(1), Delta(2)) = Zero

\* C5 (amended): the same, when the two normalized scores sum to 1.
C5_ZeroSumComplementary ==
  (/\ Calculated /\ Len(saved[1]) = 2 /\ saved[2][1] = saved[2][2]
   /\ RAdd(saved[3][1], saved[3][2]) = One) =>
    RAdd(Delta(1), Delta(2)) = Zero

C5_Witness ==
  /\ Calculated
  /\ saved[1] = <<F(1600), F(1200)>>
  /\ saved[2] = <<F(20), F(20)>>
  /\ saved[3] = <<Zero, One>>
  /\ Delta(1) = RNeg(Delta(2)) /\ Delta(1) # Zero

\* C6: no operation ever panics; every call returns normally.
C6_NoPanic == pc # "panicked"

\* C7: the caller's slices hold after the call, and after later writes to
\* the result, exactly what they held before; the result is fresh storage.
C7_InputsUntouched ==
  op \in Adapters \cup {"Calculate", "H2H"} =>
    /\ \A a \in DOMAIN saved : heap[a] = saved[a]
    /\ result \notin DOMAIN saved

C7_Witness ==
  /\ pc = "written" /\ op = "FFA" /\ ~err
  /\ saved[1] = <<F(10), F(20)>>
  /\ heap[1] = <<F(10), F(20)>>
  /\ Out[1] = Zero

\* the lowest and highest of a non-empty sequence of scores
Lowest(s) == CHOOSE x \in {s[i] : i \in DOMAIN s} : \A i \in DOMAIN s : RLe(x, s[i])

Highest(s) == CHOOSE x \in {s[i] : i \in DOMAIN s} : \A i \in DOMAIN s : RLe(s[i], x)

\* lowest to 0, highest to 1, everything within [0,1], order and relative
\* spacing kept
Rescaled(s, o) ==
  LET spread == RSub(Highest(s), Lowest(s)) IN
  \A i \in DOMAIN s :
    /\ RLe(Zero, o[i]) /\ RLe(o[i], One)
    /\ s[i] = Lowest(s) => o[i] = Zero
    /\ s[i] = Highest(s) => o[i] = One
    /\ \A j \in DOMAIN s :
         /\ RLt(s[i], s[j]) <=> RLt(o[i], o[j])
         /\ RMul(RSub(o[i], o[j]), spread) = RSub(s[i], s[j])

\* C8 (as stated): normalize leaves fewer than 2 scores untouched, maps
\* all-equal scores to 0.5, and otherwise rescales to [0,1] with the lowest
\* at 0 and the highest at 1, keeping order and relative spacing.
C8_NormalizePost ==
  (pc = "done" /\ op = "normalize") =>
    LET s == saved[1]
        o == heap[1]
    IN IF Len(s) < 2 THEN o = s
       ELSE IF \A i, j \in DOMAIN s : s[i] = s[j]
            THEN o = [i \in DOMAIN s |-> Half]
            ELSE Len(o) = Len(s) /\ Rescaled(s, o)

\* every element is within 1e-9 of the next one
AdjacentWithinNoise(s) ==
  \A i \in 1..(Len(s) - 1) : RLe(RAbs(RSub(s[i], s[i + 1])), Tiny)

\* C8 (amended): the same, with "all equal" read as "each element within
\* 1e-9 of the next".
C8_NormalizePostNoise ==
  (pc = "done" /\ op = "normalize") =>
    LET s == saved[1]
        o == heap[1]
    IN IF Len(s) < 2 THEN o = s
       ELSE IF AdjacentWithinNoise(s)
            THEN o = [i \in DOMAIN s |-> Half]
            ELSE Len(o) = Len(s) /\ Rescaled(s, o)

C8_Witness ==
  /\ pc = "done" /\ op = "normalize"
  /\ saved[1] = <<Tiny, F(2), One>>
  /\ heap[1] = <<Zero, One, <<999999999, 1999999999>>>>

\* the score the race is decided on: 1 minus the normalized count of whole
\* steps, where fewer than 2 counts are not normalized
RaceScores(T, stp) ==
  LET q == [i \in DOMAIN T |-> T[i][1] \div stp]
      lo == CHOOSE x \in {q[i] : i \in DOMAIN T} : \A i \in DOMAIN T : x <= q[i]
      hi == CHOOSE x \in {q[i] : i \in DOMAIN T} : \A i \in DOMAIN T : x >= q[i]
  IN [i \in DOMAIN T |->
        IF Len(T) < 2 THEN F(1 - q[i])
        ELSE IF hi = lo THEN Half
        ELSE Rat(hi - q[i], hi - lo)]

\* C9: for durations of matching length and a positive step, Race returns
\* what Calculate returns for the players' ratings and K-factors with the
\* scores 1 - normalize(trunc(duration / step)).
C9_RaceIsCalculate ==
  (pc = "done" /\ op = "Race" /\ step > 0 /\ Len(saved[1]) = Len(players)) =>
    /\ ~err
    /\ Out = CalculateValue(InRatings, InKFactors, RaceScores(saved[1], step))

C9_Witness ==
  /\ pc = "done" /\ op = "Race" /\ ~err
  /\ step = 10000000
  /\ saved[1] = <<F(105000000), F(120000000), F(140000000)>>
  /\ InRatings = <<F(1600), F(1200), F(1600)>>
  /\ Out = CalculateValue(InRatings, InKFactors, <<One, Half, Zero>>)
  /\ Out # InRatings

\* C10: with normalized scores in [0,1] and positive K-factors, the
\* magnitude of each competitor's rating change is at most its K-factor.
C10_KFactorBoundsChange ==
  Calculated => \A i \in DOMAIN saved[1] : RLe(RAbs(Delta(i)), saved[2][i])


\* place of competitor j in the stable ascending-score order: behind every
\* lower score and every equal score listed earlier
Rank(S, j) ==
  1 + Cardinality({i \in DOMAIN S : RLt(S[i], S[j]) \/ (S[i] = S[j] /\ i < j)})

\* the comparisons competitor j took part in
TookPart(j) == {p \in DOMAIN compared : compared[p].a = j \/ compared[p].b = j}

\* sum of K_j * (score_j - expected_j) over the first n comparisons
RECURSIVE GainUpTo(_, _)
GainUpTo(j, n) ==
  IF n = 0 THEN Zero
  ELSE
    LET c == compared[n]
        own == IF c.a = j THEN RMul(saved[2][j], RSub(saved[3][j], c.Ea))
               ELSE IF c.b = j THEN RMul(saved[2][j], RSub(saved[3][j], c.Eb))
               ELSE Zero
    IN RAdd(GainUpTo(j, n - 1), own)

\* C11: for n >= 2 competitors Calculate makes exactly n-1 comparisons, one
\* per pair of neighbours in the stable ascending-score order; the lowest and
\* the highest take part in one comparison and everyone else in two; the two
\* expected values of a comparison sum to 1; and the result at index j is
\* ratings[j] plus the sum of K_j * (score_j - expected_j) over j's comparisons.
C11_AdjacentPairs ==
  (Calculated /\ Len(saved[1]) >= 2) =>
    LET n == Len(saved[1])
        S == saved[3]
    IN /\ Len(compared) = n - 1
       /\ \A p \in DOMAIN compared :
            /\ Rank(S, compared[p].a) = p
            /\ Rank(S, compared[p].b) = p + 1
            /\ RAdd(compared[p].Ea, compared[p].Eb) = One
       /\ \A j \in 1..n :
            /\ Cardinality(TookPart(j)) = IF Rank(S, j) \in {1, n} THEN 1 ELSE 2
            /\ Out[j] = RAdd(saved[1][j], GainUpTo(j, Len(compared)))

C11_Witness ==
  /\ Calculated
  /\ saved[1] = <<F(1600), F(1200), F(1600)>>
  /\ saved[2] = <<F(20), F(40), F(20)>>
  /\ saved[3] = <<One, Half, Half>>
  /\ Len(compared) = 2
  /\ compared[1].a = 2 /\ compared[1].b = 3
  /\ compared[2].a = 3 /\ compared[2].b = 1
  /\ TookPart(3) = {1, 2}
  /\ Out[3] # saved[1][3]

====
